---- MODULE Spec2Model ----
(***************************************************************************)
(* The O(1) LRU cache of src/lru.go: a fixed slot array (data), a recency  *)
(* list threaded through the slots as index pairs (next/last), a key index *)
(* (keys) and the cursors head, tail and len.                              *)
(***************************************************************************)
EXTENDS Integers, Sequences, FiniteSets, TLC

\* ---------------------------------------------------------------- bounds
MaxKey == 2
MaxVal == 1

\* ------------------------------------------------------- configurations
\* the capacities New is called with
Caps == {0, 1, 2}
\* the capacities New is called with where Clear is never called
FreshCaps == {2, 3}
\* the capacities New is called with where several threads call into the cache
ConcCaps == {1, 2}
\* the threads that call into one cache
Threads == {1, 2}
\* the nil error
Nil == <<>>
\* the error a failing evict callback returns for the entry (k, v)
EvictErr(k, v) == <<k, v>>

VARIABLES
    cap,      \* Cache.cap
    evict,    \* TRUE iff Cache.evict is non-nil
    c,        \* the mutable fields of the Cache: len, head, tail, data, keys
    op,       \* the last call: [name, key, val, stop]
    ret,      \* what the last call returned: [val, ok, err], and the return statement it took
    calls,    \* the invocations of the evict callback made by the last call
    victim,   \* the entries the last call removed from the cache
    out,      \* what the last call yielded, when it was an iteration
    fresh,    \* a cache built by New at the last Clear (or at Init), given the same calls since
    recency,  \* history: the keys put and not since removed, most recently accessed first
    held,     \* history: key -> value of the most recent Put, for keys put and not since removed
    cleared,  \* history: Clear has been called
    mutex,    \* Cache.m: the thread that holds the mutex, 0 when it is unlocked
    th        \* the threads calling into the cache: where each is in its call, and its locals

vars == <<cap, evict, c, op, ret, calls, victim, out, fresh, recency, held, cleared, mutex, th>>

\* K = int: keys 0..MaxKey, 0 being the zero value of K, and never fewer than cap + 1
\* keys, so that a full cache can be offered a key it does not hold
KeySet == 0..(IF cap > MaxKey THEN cap ELSE MaxKey)
\* V = int: values 0..MaxVal, 0 being the zero value of V
ValSet == 0..MaxVal

\* ------------------------------------------------------------ the cache
\* the zero value of node[K, V]
node == [next |-> 0, last |-> 0, key |-> 0, val |-> 0]

\* New(cap, evict): len, head and tail are zero, data holds cap zero nodes, keys is empty
New(n) ==
    [len |-> 0, head |-> 0, tail |-> 0,
     data |-> [i \in 0..(n - 1) |-> node],
     keys |-> <<>>]

\* delete that removes nothing (mutant of delete)
deleteNothing(m, k) == m

\* delete(m, k) on a Go map
delete(m, k) == [x \in (DOMAIN m) \ {k} |-> m[x]]

\* m[k] = i on a Go map
store(m, k, i) == [x \in (DOMAIN m) \cup {k} |-> IF x = k THEN i ELSE m[x]]

\* promote that leaves the tail where it is (mutant of promote)
promoteKeepTail(cc, i) ==
    IF i = cc.head THEN cc
    ELSE
      LET ptr == cc.data[i]
          d1  == IF i = cc.tail THEN cc.data
                 ELSE [cc.data EXCEPT ![ptr.last].next = ptr.next]
          d2  == IF i = cc.tail THEN d1
                 ELSE [d1 EXCEPT ![d1[i].next].last = d1[i].last]
          d3  == [d2 EXCEPT ![i].next = cc.head]
          d4  == [d3 EXCEPT ![cc.head].last = i]
      IN [cc EXCEPT !.data = d4, !.head = i]

\* promote moves the node at index i to the front of the queue
promote(cc, i) ==
    IF i = cc.head THEN cc
    ELSE
      LET ptr == cc.data[i]
          t1  == IF i = cc.tail THEN ptr.last ELSE cc.tail
          d1  == IF i = cc.tail THEN cc.data
                 ELSE [cc.data EXCEPT ![ptr.last].next = ptr.next]
          d2  == IF i = cc.tail THEN d1
                 ELSE [d1 EXCEPT ![d1[i].next].last = d1[i].last]
          d3  == [d2 EXCEPT ![i].next = cc.head]
          d4  == [d3 EXCEPT ![cc.head].last = i]
      IN [cc EXCEPT !.tail = t1, !.data = d4, !.head = i]

\* Get that promotes the index the map lookup gave without looking at ok (mutant of GetOp)
GetOpNoCheck(cc, key) ==
    IF key \in DOMAIN cc.keys
    THEN LET i == cc.keys[key]
         IN [c |-> promote(cc, i), val |-> cc.data[i].val, ok |-> TRUE]
    ELSE [c |-> promote(cc, 0), val |-> 0, ok |-> FALSE]

\* Get: the value and found flag returned, and the cache afterwards
GetOp(cc, key) ==
    IF key \in DOMAIN cc.keys
    THEN LET i == cc.keys[key]
         IN [c |-> promote(cc, i), val |-> cc.data[i].val, ok |-> TRUE]
    ELSE [c |-> cc, val |-> 0, ok |-> FALSE]

\* Put of a cached key that moves to front and forgets the val (mutant of PutUpdate)
PutUpdateNoStore(cc, key, val) ==
    [c |-> promote(cc, cc.keys[key]),
     err |-> Nil, calls |-> <<>>, victim |-> <<>>, path |-> "update"]

\* Put, the key is cached: just update the val and move to front
PutUpdate(cc, key, val) ==
    LET i == cc.keys[key]
    IN [c |-> promote([cc EXCEPT !.data[i].val = val], i),
        err |-> Nil, calls |-> <<>>, victim |-> <<>>, path |-> "update"]

\* an insert that records the key's slot after c.len++ (mutant of PutInsert)
PutInsertAfterIncrement(cc, key, val) ==
    LET d1 == [cc.data EXCEPT ![cc.len] = [node EXCEPT !.next = cc.head, !.key = key, !.val = val]]
        d2 == [d1 EXCEPT ![cc.head].last = cc.len]
    IN [c |-> [cc EXCEPT !.data = d2, !.head = cc.len,
                         !.keys = store(cc.keys, key, cc.len + 1), !.len = cc.len + 1],
        err |-> Nil, calls |-> <<>>, victim |-> <<>>, path |-> "insert"]

\* Put, there is space: take the highest unused slot
PutInsert(cc, key, val) ==
    LET d1 == [cc.data EXCEPT ![cc.len] = [node EXCEPT !.next = cc.head, !.key = key, !.val = val]]
        d2 == [d1 EXCEPT ![cc.head].last = cc.len]
    IN [c |-> [cc EXCEPT !.data = d2, !.head = cc.len,
                         !.keys = store(cc.keys, key, cc.len), !.len = cc.len + 1],
        err |-> Nil, calls |-> <<>>, victim |-> <<>>, path |-> "insert"]

\* eviction that calls evict after the slot is overwritten (mutant of PutEvict)
PutEvictLate(cc, key, val, fail) ==
    LET v  == cc.data[cc.tail]
        e  == IF fail THEN EvictErr(key, val) ELSE Nil
        ks == store(delete(cc.keys, v.key), key, cc.tail)
        d1 == [cc.data EXCEPT ![cc.tail].key = key, ![cc.tail].val = val]
    IN [c |-> promote([cc EXCEPT !.keys = ks, !.data = d1], cc.tail),
        err |-> IF evict THEN e ELSE Nil,
        calls |-> IF evict THEN <<[key |-> key, val |-> val, err |-> e]>> ELSE <<>>,
        victim |-> <<[key |-> v.key, val |-> v.val]>>,
        path |-> "evict"]

\* eviction that drops the error of evict (mutant of PutEvict)
PutEvictDropErr(cc, key, val, fail) ==
    LET v  == cc.data[cc.tail]
        e  == IF fail THEN EvictErr(v.key, v.val) ELSE Nil
        ks == store(delete(cc.keys, v.key), key, cc.tail)
        d1 == [cc.data EXCEPT ![cc.tail].key = key, ![cc.tail].val = val]
    IN [c |-> promote([cc EXCEPT !.keys = ks, !.data = d1], cc.tail),
        err |-> Nil,
        calls |-> IF evict THEN <<[key |-> v.key, val |-> v.val, err |-> e]>> ELSE <<>>,
        victim |-> <<[key |-> v.key, val |-> v.val]>>,
        path |-> "evict"]

\* eviction that returns as soon as evict fails (mutant of PutEvict)
PutEvictAbort(cc, key, val, fail) ==
    LET v  == cc.data[cc.tail]
        e  == IF fail THEN EvictErr(v.key, v.val) ELSE Nil
        ks == store(delete(cc.keys, v.key), key, cc.tail)
        d1 == [cc.data EXCEPT ![cc.tail].key = key, ![cc.tail].val = val]
    IN IF evict /\ fail
       THEN [c |-> cc, err |-> e,
             calls |-> <<[key |-> v.key, val |-> v.val, err |-> e]>>,
             victim |-> <<>>, path |-> "evict"]
       ELSE [c |-> promote([cc EXCEPT !.keys = ks, !.data = d1], cc.tail),
             err |-> Nil,
             calls |-> IF evict THEN <<[key |-> v.key, val |-> v.val, err |-> e]>> ELSE <<>>,
             victim |-> <<[key |-> v.key, val |-> v.val]>>,
             path |-> "evict"]

\* Put, the cache is full: take the slot of the tail;
\* fail tells whether the evict callback returns an error
PutEvict(cc, key, val, fail) ==
    LET v  == cc.data[cc.tail]
        e  == IF fail THEN EvictErr(v.key, v.val) ELSE Nil
        ks == store(delete(cc.keys, v.key), key, cc.tail)
        d1 == [cc.data EXCEPT ![cc.tail].key = key, ![cc.tail].val = val]
    IN [c |-> promote([cc EXCEPT !.keys = ks, !.data = d1], cc.tail),
        err |-> IF evict THEN e ELSE Nil,
        calls |-> IF evict THEN <<[key |-> v.key, val |-> v.val, err |-> e]>> ELSE <<>>,
        victim |-> <<[key |-> v.key, val |-> v.val]>>,
        path |-> "evict"]

\* Put that looks for space before it looks for the key (mutant of PutOp)
PutOpSpaceFirst(cc, key, val, fail) ==
    IF cap = 0
    THEN [c |-> cc, err |-> Nil, calls |-> <<>>, victim |-> <<>>, path |-> "zero"]
    ELSE IF cc.len < cap THEN PutInsert(cc, key, val)
    ELSE IF key \in DOMAIN cc.keys THEN PutUpdate(cc, key, val)
    ELSE PutEvict(cc, key, val, fail)

\* Put without the test for capacity 0, taking a slot while len <= cap (mutant of PutOp)
PutOpNoZeroCheck(cc, key, val, fail) ==
    IF key \in DOMAIN cc.keys THEN PutUpdate(cc, key, val)
    ELSE IF cc.len <= cap THEN PutInsert(cc, key, val)
    ELSE PutEvict(cc, key, val, fail)

\* Put that takes a free slot while len <= cap (mutant of PutOp)
PutOpOffByOne(cc, key, val, fail) ==
    IF cap = 0
    THEN [c |-> cc, err |-> Nil, calls |-> <<>>, victim |-> <<>>, path |-> "zero"]
    ELSE IF key \in DOMAIN cc.keys THEN PutUpdate(cc, key, val)
    ELSE IF cc.len <= cap THEN PutInsert(cc, key, val)
    ELSE PutEvict(cc, key, val, fail)

\* Put: the cache afterwards, the error returned, the callback invocations made
PutOp(cc, key, val, fail) ==
    IF cap = 0
    THEN [c |-> cc, err |-> Nil, calls |-> <<>>, victim |-> <<>>, path |-> "zero"]
    ELSE IF key \in DOMAIN cc.keys THEN PutUpdate(cc, key, val)
    ELSE IF cc.len < cap THEN PutInsert(cc, key, val)
    ELSE PutEvict(cc, key, val, fail)

\* a join that keeps the last non-nil error only, as err = c.evict(...) would (mutant of Join)
JoinLast(errs) ==
    LET s == SelectSeq(errs, LAMBDA e : e # Nil)
    IN IF s = <<>> THEN Nil ELSE <<s[Len(s)]>>

\* errors.Join: the non-nil errors, in order; nil when there is none
Join(errs) == SelectSeq(errs, LAMBDA e : e # Nil)

\* Clear that wipes the slots and the key index and forgets c.len = 0 (mutant of ClearOp)
ClearOpKeepLen(cc, fails) ==
    LET all == [j \in 1..cc.len |-> [key |-> cc.data[j - 1].key, val |-> cc.data[j - 1].val]]
        errs == [i \in 0..(cc.len - 1) |->
                   IF fails[i] THEN EvictErr(cc.data[i].key, cc.data[i].val) ELSE Nil]
    IN [c |-> [cc EXCEPT !.data = [i \in DOMAIN cc.data |-> IF i < cc.len THEN node ELSE cc.data[i]],
                         !.keys = <<>>],
        err |-> IF evict THEN Join([j \in 1..cc.len |-> errs[j - 1]]) ELSE Nil,
        calls |-> IF evict
                  THEN [j \in 1..cc.len |-> [key |-> all[j].key, val |-> all[j].val, err |-> errs[j - 1]]]
                  ELSE <<>>,
        victim |-> all]

\* Clear: fails[i] tells whether the evict callback returns an error for slot i
ClearOp(cc, fails) ==
    LET all == [j \in 1..cc.len |-> [key |-> cc.data[j - 1].key, val |-> cc.data[j - 1].val]]
        errs == [i \in 0..(cc.len - 1) |->
                   IF fails[i] THEN EvictErr(cc.data[i].key, cc.data[i].val) ELSE Nil]
    IN [c |-> [cc EXCEPT !.data = [i \in DOMAIN cc.data |-> IF i < cc.len THEN node ELSE cc.data[i]],
                         !.keys = <<>>,
                         !.len = 0],
        err |-> IF evict THEN Join([j \in 1..cc.len |-> errs[j - 1]]) ELSE Nil,
        calls |-> IF evict
                  THEN [j \in 1..cc.len |-> [key |-> all[j].key, val |-> all[j].val, err |-> errs[j - 1]]]
                  ELSE <<>>,
        victim |-> all]

\* an iteration that ranges over c.data instead of c.data[:c.len] (mutant of Yielded)
YieldedWholeArray(cc, stop) == IF stop = 0 \/ stop > cap THEN cap ELSE stop

\* how many elements range c.data[:c.len] yields when the consumer stops at its stop-th yield
Yielded(cc, stop) == IF stop = 0 \/ stop > cc.len THEN cc.len ELSE stop

\* All: the (key, val) pairs yielded
AllSeq(cc, stop) == [j \in 1..Yielded(cc, stop) |-> <<cc.data[j - 1].key, cc.data[j - 1].val>>]

\* Keys: the keys yielded
KeysSeq(cc, stop) == [j \in 1..Yielded(cc, stop) |-> cc.data[j - 1].key]

\* Values: the values yielded
ValuesSeq(cc, stop) == [j \in 1..Yielded(cc, stop) |-> cc.data[j - 1].val]

\* what the iterator returned by the method called name yields
Seq2(name, cc, stop) ==
    CASE name = "All" -> AllSeq(cc, stop)
      [] name = "Keys" -> KeysSeq(cc, stop)
      [] name = "Values" -> ValuesSeq(cc, stop)

\* ------------------------------------------------------------ the calls
\* a thread that is in no call
IdleThread ==
    [pc |-> "idle", name |-> "", key |-> 0, val |-> 0, outer |-> "", i |-> 0, n |-> 0,
     c0 |-> New(0), ret |-> [val |-> 0, ok |-> FALSE, err |-> Nil, path |-> ""],
     calls |-> <<>>, out |-> <<>>]

InitWith(caps) ==
    /\ cap \in caps
    /\ evict \in BOOLEAN
    /\ c = New(cap)
    /\ op = [name |-> "New", key |-> 0, val |-> 0, stop |-> 0]
    /\ ret = [val |-> 0, ok |-> FALSE, err |-> Nil, path |-> ""]
    /\ calls = <<>>
    /\ victim = <<>>
    /\ out = <<>>
    /\ fresh = [c |-> New(cap), ret |-> [val |-> 0, ok |-> FALSE, err |-> Nil, path |-> ""],
                calls |-> <<>>, out |-> <<>>]
    /\ recency = <<>>
    /\ held = <<>>
    /\ cleared = FALSE
    /\ mutex = 0
    /\ th = [t \in Threads |-> IdleThread]

Init == InitWith(Caps)

\* whether an invocation of the evict callback fails; a nil callback never does
Fails == IF evict THEN BOOLEAN ELSE {FALSE}

\* s without the key k
Without(s, k) == SelectSeq(s, LAMBDA x : x # k)

\* one call of Get
GetCall(key) ==
    \E r \in {GetOp(c, key)} :
       /\ c' = r.c
       /\ op' = [name |-> "Get", key |-> key, val |-> 0, stop |-> 0]
       /\ ret' = [val |-> r.val, ok |-> r.ok, err |-> Nil, path |-> IF r.ok THEN "hit" ELSE "miss"]
       /\ calls' = <<>>
       /\ victim' = <<>>
       /\ out' = <<>>
       /\ recency' = IF r.ok THEN <<key>> \o Without(recency, key) ELSE recency
       /\ UNCHANGED <<cap, evict, held, cleared>>

\* one call of Put
PutCall(key, val, fail) ==
    \E r \in {PutOp(c, key, val, fail)} :
      LET gone == {r.victim[j].key : j \in DOMAIN r.victim}
      IN
       /\ c' = r.c
       /\ op' = [name |-> "Put", key |-> key, val |-> val, stop |-> 0]
       /\ ret' = [val |-> 0, ok |-> FALSE, err |-> r.err, path |-> r.path]
       /\ calls' = r.calls
       /\ victim' = r.victim
       /\ out' = <<>>
       /\ recency' = <<key>> \o SelectSeq(recency, LAMBDA x : x # key /\ x \notin gone)
       /\ held' = [x \in ((DOMAIN held) \ gone) \cup {key} |-> IF x = key THEN val ELSE held[x]]
       /\ UNCHANGED <<cap, evict, cleared>>

\* one call of Clear
ClearCall(fails) ==
    \E r \in {ClearOp(c, fails)} :
       /\ c' = r.c
       /\ op' = [name |-> "Clear", key |-> 0, val |-> 0, stop |-> 0]
       /\ ret' = [val |-> 0, ok |-> FALSE, err |-> r.err, path |-> ""]
       /\ calls' = r.calls
       /\ victim' = r.victim
       /\ out' = <<>>
       /\ recency' = <<>>
       /\ held' = <<>>
       /\ cleared' = TRUE
       /\ UNCHANGED <<cap, evict>>

\* one iteration; the consumer returns false from its stop-th yield (0: it never does)
IterCall(name, stop) ==
    /\ op' = [name |-> name, key |-> 0, val |-> 0, stop |-> stop]
    /\ ret' = [val |-> 0, ok |-> FALSE, err |-> Nil, path |-> ""]
    /\ calls' = <<>>
    /\ victim' = <<>>
    /\ out' = Seq2(name, c, stop)
    /\ UNCHANGED <<cap, evict, c, recency, held, cleared>>

Get == \E key \in KeySet : GetCall(key) /\ UNCHANGED <<fresh, mutex, th>>

Put == \E key \in KeySet, val \in ValSet, fail \in Fails : PutCall(key, val, fail) /\ UNCHANGED <<fresh, mutex, th>>

Clear == \E fails \in [0..(cap - 1) -> Fails] : ClearCall(fails) /\ UNCHANGED <<fresh, mutex, th>>

All == \E stop \in 0..c.len : IterCall("All", stop) /\ UNCHANGED <<fresh, mutex, th>>

Keys == \E stop \in 0..c.len : IterCall("Keys", stop) /\ UNCHANGED <<fresh, mutex, th>>

Values == \E stop \in 0..c.len : IterCall("Values", stop) /\ UNCHANGED <<fresh, mutex, th>>

Next ==
    \/ Get
    \/ Put
    \/ Clear
    \/ All
    \/ Keys
    \/ Values

Spec == Init /\ [][Next]_vars

\* ------------------------------------------- a cache that is never cleared
InitFresh == InitWith(FreshCaps)

NextFresh ==
    \/ Get
    \/ Put

SpecFresh == InitFresh /\ [][NextFresh]_vars

\* ------------------------------------------------- re-use after Clear
\* what the last call returned, invoked and yielded
Observed == [ret |-> ret, calls |-> calls, out |-> out]

\* the last call gave the same on the cache and on the fresh one
Agree == Observed = [ret |-> fresh.ret, calls |-> fresh.calls, out |-> fresh.out]

ReuseGet ==
    \E key \in KeySet : \E f \in {GetOp(fresh.c, key)} :
      /\ Agree
      /\ GetCall(key)
      /\ fresh' = [c |-> f.c, calls |-> <<>>, out |-> <<>>,
                   ret |-> [val |-> f.val, ok |-> f.ok, err |-> Nil, path |-> IF f.ok THEN "hit" ELSE "miss"]]
      /\ UNCHANGED <<mutex, th>>

ReusePut ==
    \E key \in KeySet, val \in ValSet, fail \in Fails : \E f \in {PutOp(fresh.c, key, val, fail)} :
      /\ Agree
      /\ PutCall(key, val, fail)
      /\ fresh' = [c |-> f.c, calls |-> f.calls, out |-> <<>>,
                   ret |-> [val |-> 0, ok |-> FALSE, err |-> f.err, path |-> f.path]]
      /\ UNCHANGED <<mutex, th>>

\* Clear: the fresh cache is cleared as well and then replaced by a new one
ReuseClear ==
    \E fails \in [0..(cap - 1) -> Fails] : \E f \in {ClearOp(fresh.c, fails)} :
      /\ Agree
      /\ ClearCall(fails)
      /\ fresh' = [c |-> New(cap), calls |-> f.calls, out |-> <<>>,
                   ret |-> [val |-> 0, ok |-> FALSE, err |-> f.err, path |-> ""]]
      /\ UNCHANGED <<mutex, th>>

ReuseIter(name) ==
    \E stop \in 0..c.len :
      /\ Agree
      /\ IterCall(name, stop)
      /\ fresh' = [c |-> fresh.c, calls |-> <<>>, out |-> Seq2(name, fresh.c, stop),
                   ret |-> [val |-> 0, ok |-> FALSE, err |-> Nil, path |-> ""]]
      /\ UNCHANGED <<mutex, th>>

ReuseAll == ReuseIter("All")

ReuseKeys == ReuseIter("Keys")

ReuseValues == ReuseIter("Values")

NextReuse ==
    \/ ReuseGet
    \/ ReusePut
    \/ ReuseClear
    \/ ReuseAll
    \/ ReuseKeys
    \/ ReuseValues

SpecReuse == Init /\ [][NextReuse]_vars

\* ------------------------------------------- several threads, one cache
\* the calls a thread can make
Ops ==
    {[name |-> "Get", key |-> k, val |-> 0] : k \in KeySet}
    \cup {[name |-> "Put", key |-> k, val |-> v] : k \in KeySet, v \in ValSet}
    \cup {[name |-> n, key |-> 0, val |-> 0] : n \in {"Clear", "All", "Keys", "Values"}}

\* where a call is once c.m.Lock() has returned
Entry(name) ==
    CASE name \in {"Get", "Put"} -> "lookup"
      [] name = "Clear" -> "callback"
      [] name \in {"All", "Keys", "Values"} -> "yield"

\* a mutex that lets every caller in (mutant of CanLock)
CanLockAlways(t) == TRUE

\* a mutex that lets the thread that holds it in again (mutant of CanLock)
CanLockReentrant(t) == mutex = 0 \/ mutex = t

\* a mutex that lets other callers in while its holder iterates (mutant of CanLock)
CanLockWhileIterating(t) == IF mutex = 0 THEN TRUE ELSE th[mutex].pc = "yield"

\* c.m.Lock() returns only when the mutex is unlocked
CanLock(t) == mutex = 0

\* the cache is left alone by this step, and so is every variable of the single caller
ConcUnchanged == UNCHANGED <<cap, evict, op, ret, calls, victim, out, fresh, recency, held, cleared>>

\* thread t calls a method: it arrives at c.m.Lock(); the method and its arguments
\* have no effect before the mutex is taken and are drawn there
Call(t) ==
    /\ th[t].pc = "idle"
    /\ th' = [th EXCEPT ![t].pc = "lock"]
    /\ UNCHANGED <<c, mutex>>
    /\ ConcUnchanged

\* c.m.Lock() returns; the range expression c.data[:c.len] of a loop is evaluated
Lock(t) ==
    /\ th[t].pc = "lock"
    /\ CanLock(t)
    /\ mutex' = t
    /\ \E o \in Ops :
          th' = [th EXCEPT ![t].pc = Entry(o.name), ![t].name = o.name, ![t].key = o.key,
                           ![t].val = o.val, ![t].c0 = c, ![t].n = c.len, ![t].i = 0]
    /\ UNCHANGED c
    /\ ConcUnchanged

\* the deferred c.m.Unlock(): the call returns
Unlock(t) ==
    /\ th[t].pc = "unlock"
    /\ mutex' = 0
    /\ th' = [th EXCEPT ![t] = IdleThread]
    /\ UNCHANGED c
    /\ ConcUnchanged

\* promote, first half: the node at index i is taken out of the queue
promoteUnlink(cc, i) ==
    LET ptr == cc.data[i]
    IN IF i = cc.tail
       THEN [cc EXCEPT !.tail = ptr.last]
       ELSE LET d1 == [cc.data EXCEPT ![ptr.last].next = ptr.next]
                d2 == [d1 EXCEPT ![d1[i].next].last = d1[i].last]
            IN [cc EXCEPT !.data = d2]

\* promote, second half: the node at index i is put in front of the head
promoteLink(cc, i) ==
    LET d3 == [cc.data EXCEPT ![i].next = cc.head]
        d4 == [d3 EXCEPT ![cc.head].last = i]
    IN [cc EXCEPT !.data = d4, !.head = i]

\* Get: the map lookup and the read of the value
GetLookup(t) ==
    /\ th[t].pc = "lookup"
    /\ th[t].name = "Get"
    /\ IF th[t].key \in DOMAIN c.keys
       THEN LET i == c.keys[th[t].key]
            IN th' = [th EXCEPT ![t].i = i, ![t].pc = "promote",
                                ![t].ret = [val |-> c.data[i].val, ok |-> TRUE, err |-> Nil, path |-> "hit"]]
       ELSE th' = [th EXCEPT ![t].pc = "unlock",
                             ![t].ret = [val |-> 0, ok |-> FALSE, err |-> Nil, path |-> "miss"]]
    /\ UNCHANGED <<c, mutex>>
    /\ ConcUnchanged

\* Put: the test of the capacity, the map lookup and the test for space
PutLookup(t) ==
    /\ th[t].pc = "lookup"
    /\ th[t].name = "Put"
    /\ IF cap = 0
       THEN th' = [th EXCEPT ![t].pc = "unlock", ![t].ret.path = "zero"]
       ELSE IF th[t].key \in DOMAIN c.keys
       THEN th' = [th EXCEPT ![t].pc = "store", ![t].i = c.keys[th[t].key], ![t].ret.path = "update"]
       ELSE IF c.len < cap
       THEN th' = [th EXCEPT ![t].pc = "insert", ![t].ret.path = "insert"]
       ELSE th' = [th EXCEPT ![t].pc = "evict", ![t].ret.path = "evict"]
    /\ UNCHANGED <<c, mutex>>
    /\ ConcUnchanged

\* Put, the key is cached: c.data[i].val = val
PutStore(t) ==
    /\ th[t].pc = "store"
    /\ c' = [c EXCEPT !.data[th[t].i].val = th[t].val]
    /\ th' = [th EXCEPT ![t].pc = "promote"]
    /\ UNCHANGED mutex
    /\ ConcUnchanged

\* promote(i): return if i is the head, else take the node out of the queue
PromoteUnlink(t) ==
    /\ th[t].pc = "promote"
    /\ IF th[t].i = c.head
       THEN c' = c /\ th' = [th EXCEPT ![t].pc = "unlock"]
       ELSE c' = promoteUnlink(c, th[t].i) /\ th' = [th EXCEPT ![t].pc = "link"]
    /\ UNCHANGED mutex
    /\ ConcUnchanged

\* promote(i): put the node in front of the head
PromoteLink(t) ==
    /\ th[t].pc = "link"
    /\ c' = promoteLink(c, th[t].i)
    /\ th' = [th EXCEPT ![t].pc = "unlock"]
    /\ UNCHANGED mutex
    /\ ConcUnchanged

\* Put, there is space: the node is written to slot len and linked before the head
PutInsertNode(t) ==
    /\ th[t].pc = "insert"
    /\ LET d1 == [c.data EXCEPT ![c.len] = [node EXCEPT !.next = c.head, !.key = th[t].key, !.val = th[t].val]]
           d2 == [d1 EXCEPT ![c.head].last = c.len]
       IN c' = [c EXCEPT !.data = d2]
    /\ th' = [th EXCEPT ![t].pc = "index"]
    /\ UNCHANGED mutex
    /\ ConcUnchanged

\* Put, there is space: head, the key index and len are updated
PutInsertIndex(t) ==
    /\ th[t].pc = "index"
    /\ c' = [c EXCEPT !.head = c.len, !.keys = store(c.keys, th[t].key, c.len), !.len = c.len + 1]
    /\ th' = [th EXCEPT ![t].pc = "unlock"]
    /\ UNCHANGED mutex
    /\ ConcUnchanged

\* Put, the cache is full: the evict callback is called on the tail and returns
PutEvictCallback(t) ==
    /\ th[t].pc = "evict"
    /\ IF evict
       THEN \E fail \in BOOLEAN :
              LET v == c.data[c.tail]
                  e == IF fail THEN EvictErr(v.key, v.val) ELSE Nil
              IN th' = [th EXCEPT ![t].pc = "rekey", ![t].ret.err = e,
                                  ![t].calls = <<[key |-> v.key, val |-> v.val, err |-> e]>>]
       ELSE th' = [th EXCEPT ![t].pc = "rekey"]
    /\ UNCHANGED <<c, mutex>>
    /\ ConcUnchanged

\* Put, the cache is full: the key index and the slot of the tail take the new entry
PutRekey(t) ==
    /\ th[t].pc = "rekey"
    /\ LET v  == c.data[c.tail]
           ks == store(delete(c.keys, v.key), th[t].key, c.tail)
           d1 == [c.data EXCEPT ![c.tail].key = th[t].key, ![c.tail].val = th[t].val]
       IN c' = [c EXCEPT !.keys = ks, !.data = d1]
    /\ th' = [th EXCEPT ![t].pc = "promote", ![t].i = c.tail]
    /\ UNCHANGED mutex
    /\ ConcUnchanged

\* Clear: one round of the loop over c.data[:c.len], the callback returns
ClearCallback(t) ==
    /\ th[t].pc = "callback"
    /\ IF evict /\ th[t].i < th[t].n
       THEN \E fail \in BOOLEAN :
              LET v == c.data[th[t].i]
                  e == IF fail THEN EvictErr(v.key, v.val) ELSE Nil
              IN th' = [th EXCEPT ![t].i = th[t].i + 1,
                                  ![t].ret.err = Join(th[t].ret.err \o <<e>>),
                                  ![t].calls = Append(th[t].calls, [key |-> v.key, val |-> v.val, err |-> e])]
       ELSE th' = [th EXCEPT ![t].pc = "wipe"]
    /\ UNCHANGED <<c, mutex>>
    /\ ConcUnchanged

\* Clear: the slots and the key index are cleared, len is set to 0
ClearWipe(t) ==
    /\ th[t].pc = "wipe"
    /\ c' = [c EXCEPT !.data = [i \in DOMAIN c.data |-> IF i < c.len THEN node ELSE c.data[i]],
                      !.keys = <<>>,
                      !.len = 0]
    /\ th' = [th EXCEPT ![t].pc = "unlock"]
    /\ UNCHANGED mutex
    /\ ConcUnchanged

\* what the iterator of the method called name passes to yield for the node n
Element(name, n) ==
    CASE name = "All" -> <<n.key, n.val>>
      [] name = "Keys" -> n.key
      [] name = "Values" -> n.val

\* All, Keys, Values: one round of the loop over c.data[:c.len]; the consumer
\* returns true (more) or false from yield
Yield(t) ==
    /\ th[t].pc = "yield"
    /\ IF th[t].i < th[t].n
       THEN \E more \in BOOLEAN :
              th' = [th EXCEPT ![t].i = th[t].i + 1,
                               ![t].out = Append(th[t].out, Element(th[t].name, c.data[th[t].i])),
                               ![t].pc = IF more THEN "yield" ELSE "unlock"]
       ELSE th' = [th EXCEPT ![t].pc = "unlock"]
    /\ UNCHANGED <<c, mutex>>
    /\ ConcUnchanged

\* the evict callback, or the consumer of an iteration, calls a method of the same
\* cache: the thread arrives at c.m.Lock() while it holds the mutex
Reenter(t) ==
    /\ \/ th[t].pc = "evict" /\ evict
       \/ th[t].pc = "callback" /\ evict /\ th[t].i < th[t].n
       \/ th[t].pc = "yield" /\ th[t].i < th[t].n
    /\ th' = [th EXCEPT ![t] = [IdleThread EXCEPT !.pc = "lock", !.outer = th[t].name]]
    /\ UNCHANGED <<c, mutex>>
    /\ ConcUnchanged

InitConc == InitWith(ConcCaps)

NextConc ==
    \E t \in Threads :
       \/ Call(t)
       \/ Lock(t)
       \/ GetLookup(t)
       \/ PutLookup(t)
       \/ PutStore(t)
       \/ PromoteUnlink(t)
       \/ PromoteLink(t)
       \/ PutInsertNode(t)
       \/ PutInsertIndex(t)
       \/ PutEvictCallback(t)
       \/ PutRekey(t)
       \/ ClearCallback(t)
       \/ ClearWipe(t)
       \/ Yield(t)
       \/ Reenter(t)
       \/ Unlock(t)

SpecConc == InitConc /\ [][NextConc]_vars

\* thread t is in the locked region: between the return of c.m.Lock() and c.m.Unlock(),
\* a call made from inside a callback or a consumer included
InLocked(t) == th[t].pc \notin {"idle", "lock"} \/ th[t].outer # ""

\* what the call of thread record w gives when it runs alone on the cache w.c0, the
\* callback failing where it failed for w
Sequential(w) ==
    CASE w.name = "Get" ->
           LET r == GetOp(w.c0, w.key)
           IN [c |-> r.c, calls |-> <<>>, out |-> <<>>,
               ret |-> [val |-> r.val, ok |-> r.ok, err |-> Nil, path |-> IF r.ok THEN "hit" ELSE "miss"]]
      [] w.name = "Put" ->
           LET r == PutOp(w.c0, w.key, w.val, w.calls # <<>> /\ w.calls[1].err # Nil)
           IN [c |-> r.c, calls |-> r.calls, out |-> <<>>,
               ret |-> [val |-> 0, ok |-> FALSE, err |-> r.err, path |-> r.path]]
      [] w.name = "Clear" ->
           LET r == ClearOp(w.c0, [i \in 0..(cap - 1) |-> i < Len(w.calls) /\ w.calls[i + 1].err # Nil])
           IN [c |-> r.c, calls |-> r.calls, out |-> <<>>,
               ret |-> [val |-> 0, ok |-> FALSE, err |-> r.err, path |-> ""]]
      [] w.name \in {"All", "Keys", "Values"} ->
           [c |-> w.c0, calls |-> <<>>,
            out |-> Seq2(w.name, w.c0, IF Len(w.out) = w.c0.len THEN 0 ELSE Len(w.out)),
            ret |-> [val |-> 0, ok |-> FALSE, err |-> Nil, path |-> ""]]

\* ------------------------------------------------------------- claims
\* the least recently accessed of the keys put and not since removed
LRU == recency[Len(recency)]

\* the call being made is a Put of a key that is not cached, on a full cache
Evicting == op'.name = "Put" /\ cap >= 1 /\ op'.key \notin DOMAIN c.keys /\ c.len = cap

\* C1: on a cache of capacity >= 1, after any calls of Get, Put and Clear, a Put of
\* a key that is not cached on a full cache evicts the least recently used entry.
C1_EvictsLRU ==
    [][Evicting => Len(victim') = 1 /\ victim'[1].key = LRU]_vars

\* C2: after Clear the cache answers every sequence of calls as a newly built cache
\* of the same capacity does: same results, callback arguments, errors, iteration output.
C2_ClearedIsFresh == Agree

\* C3: the number of keys held is len, and 0 <= len <= cap, in every reachable state.
C3_CapacityBound ==
    /\ 0 <= c.len
    /\ c.len <= cap
    /\ Cardinality(DOMAIN c.keys) = c.len

\* C3 witness: a full cache of capacity 2 or more just after an eviction
C3_Witness == cap >= 2 /\ c.len = cap /\ ret.path = "evict"

\* C4 as stated: Get of any key put and not since evicted or cleared returns the
\* value of the most recent Put of that key, whatever the capacity.
C4_RoundTripAnyCap ==
    \A k \in DOMAIN held : GetOp(c, k).ok /\ GetOp(c, k).val = held[k]

\* C4 amended: on a cache of capacity >= 1, Get of any key put and not since evicted
\* or cleared returns (v, true), v the value of the most recent Put of that key.
C4_RoundTrip == cap >= 1 => C4_RoundTripAnyCap

\* C4 witness: on a full cache, after an eviction of another key, a held key still
\* carries a non-zero value put earlier
C4_Witness ==
    /\ cap >= 2
    /\ ret.path = "evict"
    /\ \E k \in DOMAIN held : k # op.key /\ held[k] # 0 /\ GetOp(c, k).val = held[k]

\* C5: on a cache of capacity >= 2 on which Clear was never called, every eviction
\* removes the least recently accessed key: afterwards Get of it misses, Get of the
\* other held keys and of the new key hits.
C5_FreshRecency ==
    [][(~cleared' /\ cap >= 2 /\ Evicting) =>
         /\ Len(victim') = 1
         /\ victim'[1].key = LRU
         /\ ~GetOp(c', LRU).ok
         /\ \A k \in ((DOMAIN c.keys) \ {LRU}) \cup {op'.key} : GetOp(c', k).ok]_vars

\* C5 witness: the keys k1..kN went into slots 0..N-1, k1 was accessed again, and
\* the Put of a new key has evicted k2 from slot 1; k1 is second most recent
C5_Witness ==
    /\ ~cleared
    /\ cap >= 3
    /\ ret.path = "evict"
    /\ c.keys[op.key] = 1
    /\ recency[2] = c.data[0].key

\* C6: Put of a cached key invokes no callback, returns nil, leaves len and the held
\* keys as they are, and only overwrites the value of that key and moves it to the head.
C6_UpdateNoEvict ==
    [][(op'.name = "Put" /\ op'.key \in DOMAIN c.keys) =>
         /\ calls' = <<>>
         /\ victim' = <<>>
         /\ ret'.err = Nil
         /\ c'.len = c.len
         /\ c'.keys = c.keys
         /\ c'.head = c.keys[op'.key]
         /\ \A i \in DOMAIN c.data :
              /\ c'.data[i].key = c.data[i].key
              /\ c'.data[i].val = IF i = c.keys[op'.key] THEN op'.val ELSE c.data[i].val]_vars

\* C6 witness: a Put has updated a key of a full cache of capacity 2 or more
C6_Witness == cap >= 2 /\ c.len = cap /\ ret.path = "update" /\ op.val # 0

\* C7: Get of a key that is not cached returns (zero value, false) and leaves slots,
\* key index, len, head and tail as they are.
C7_MissContract ==
    [][(op'.name = "Get" /\ op'.key \notin DOMAIN c.keys) =>
         /\ ret'.val = 0
         /\ ret'.ok = FALSE
         /\ calls' = <<>>
         /\ c' = c]_vars

\* C7 witness: a Get has missed on a full cache whose head is not slot 0
C7_Witness == cap >= 2 /\ c.len = cap /\ ret.path = "miss" /\ c.head # 0

\* C8: with a non-nil callback, Get and Put invoke it exactly once per eviction, with
\* the key evicted and the value last put for it, and not at all otherwise; after the
\* eviction Get of the evicted key misses.
C8_CallbackPerEviction ==
    [][(evict /\ op'.name \in {"Get", "Put"}) =>
         IF Evicting
         THEN \E k \in DOMAIN c.keys :
                /\ Len(calls') = 1
                /\ calls'[1].key = k
                /\ calls'[1].val = held[k]
                /\ k \notin DOMAIN c'.keys
                /\ ~GetOp(c', k).ok
         ELSE calls' = <<>>]_vars

\* C8 witness: the callback was invoked once, by a Put, with a non-zero value
C8_Witness == evict /\ op.name = "Put" /\ Len(calls) = 1 /\ calls[1].val # 0

\* C9: Put returns the error the callback returned when it evicts and the callback
\* is non-nil, and nil in every other case.
C9_PutError ==
    [][op'.name = "Put" =>
         ret'.err = IF evict /\ Evicting THEN calls'[1].err ELSE Nil]_vars

\* C9 witness: a Put has returned the non-nil error of the callback
C9_Witness == op.name = "Put" /\ ret.err # Nil /\ ret.err = calls[1].err

\* C10: the cache after an evicting Put and after Clear is the one a nil-returning
\* callback leaves: the victim is out of the key index, the new entry is in the
\* victim's slot and at the head; after Clear no entry is left and len is 0.
C10_ErrorNeverBlocks ==
    [][/\ Evicting =>
            /\ c' = PutOp(c, op'.key, op'.val, FALSE).c
            /\ \E k \in DOMAIN c.keys :
                 /\ DOMAIN c'.keys = ((DOMAIN c.keys) \ {k}) \cup {op'.key}
                 /\ c'.keys[op'.key] = c.keys[k]
                 /\ c'.data[c.keys[k]].key = op'.key
                 /\ c'.data[c.keys[k]].val = op'.val
                 /\ c'.head = c.keys[k]
       /\ op'.name = "Clear" =>
            /\ c' = ClearOp(c, [i \in 0..(cap - 1) |-> FALSE]).c
            /\ c'.len = 0
            /\ c'.keys = <<>>]_vars

\* C10 witness: the callback has failed in an evicting Put, and the new key is in
\* the key index with its slot at the head
C10_Witness ==
    /\ ret.path = "evict"
    /\ ret.err # Nil
    /\ op.key \in DOMAIN c.keys
    /\ c.head = c.keys[op.key]

\* C11: Clear with a non-nil callback invokes it exactly once per held entry, in
\* storage order (slot 0 up to len-1), with that slot's key and value, and returns
\* exactly the non-nil errors of those invocations, in that order; Clear returns nil
\* when the callback is nil or every invocation returned nil.
C11_ClearCallsAndErrors ==
    [][op'.name = "Clear" =>
         IF evict
         THEN /\ Len(calls') = c.len
              /\ \A j \in 1..c.len :
                    /\ calls'[j].key = c.data[j - 1].key
                    /\ calls'[j].val = c.data[j - 1].val
                    /\ calls'[j].key \in DOMAIN c.keys
                    /\ c.keys[calls'[j].key] = j - 1
                    /\ calls'[j].val = held[calls'[j].key]
              /\ ret'.err = SelectSeq([j \in 1..c.len |-> calls'[j].err], LAMBDA e : e # Nil)
              /\ ((\A j \in 1..c.len : calls'[j].err = Nil) => ret'.err = Nil)
         ELSE calls' = <<>> /\ ret'.err = Nil]_vars

\* a Clear of two entries whose storage order is not their recency order and whose
\* two callback invocations both fail
C11_Witness ==
    /\ op.name = "Clear"
    /\ Len(calls) = 2
    /\ calls[1].err # Nil
    /\ calls[2].err # Nil
    /\ Len(ret.err) = 2
    /\ ret.err[1] # ret.err[2]
    /\ c.head = 0

\* C12: after Clear the length is 0, the key index is empty and every Get misses; a
\* second Clear called immediately afterwards invokes the callback zero times,
\* returns nil and leaves the length at 0.
C12_ClearIdempotent ==
    [][op'.name = "Clear" =>
         /\ c'.len = 0
         /\ c'.keys = <<>>
         /\ \A k \in KeySet : ~GetOp(c', k).ok
         /\ \A fails \in [0..(cap - 1) -> Fails] :
               /\ ClearOp(c', fails).calls = <<>>
               /\ ClearOp(c', fails).err = Nil
               /\ ClearOp(c', fails).c.len = 0
         /\ (op.name = "Clear" => calls' = <<>> /\ ret'.err = Nil /\ victim' = <<>>)]_vars

\* a Clear, with a callback, of a cache that an earlier Clear emptied after it had
\* been filled and read
C12_Witness ==
    /\ op.name = "Clear"
    /\ evict
    /\ victim = <<>>
    /\ calls = <<>>
    /\ c.len = 0
    /\ c.tail # 0

\* C13: on a cache of capacity 0, whatever calls are made: every Put returns nil at
\* once, with no callback invocation and no slot, key or cursor changed; every Get
\* misses; Clear invokes the callback zero times; every iteration yields nothing.
C13_ZeroCapacity ==
    cap = 0 =>
       /\ c.len = 0 /\ c.head = 0 /\ c.tail = 0
       /\ c.keys = <<>>
       /\ DOMAIN c.data = {}
       /\ calls = <<>>
       /\ victim = <<>>
       /\ out = <<>>
       /\ ret.err = Nil
       /\ ~ret.ok /\ ret.val = 0
       /\ (op.name = "Put" => ret.path = "zero")
       /\ (op.name = "Get" => ret.path = "miss")

\* a Put of a non-zero value, with a callback, on a cache of capacity 0
C13_Witness ==
    /\ cap = 0
    /\ evict
    /\ op.name = "Put"
    /\ op.val # 0
    /\ ret.path = "zero"

\* C16: consuming All, Keys or Values to completion yields exactly len elements, one
\* per active slot, in storage order (slot 0 to len-1), of the state at the moment
\* consumption begins; the keys yielded are pairwise distinct and are exactly the keys
\* of the key index; Keys and Values yield the components of what All yields, in the
\* same order; a Get hit or an updating Put does not change the order.
C16_IterationContent ==
    [][/\ (op'.name \in {"All", "Keys", "Values"} /\ op'.stop = 0 =>
             /\ Len(out') = c.len
             /\ \A j \in 1..c.len :
                   out'[j] = CASE op'.name = "All" -> <<c.data[j - 1].key, c.data[j - 1].val>>
                               [] op'.name = "Keys" -> c.data[j - 1].key
                               [] op'.name = "Values" -> c.data[j - 1].val
             /\ Len(AllSeq(c, 0)) = c.len
             /\ Cardinality({AllSeq(c, 0)[j][1] : j \in 1..c.len}) = c.len
             /\ {AllSeq(c, 0)[j][1] : j \in 1..c.len} = DOMAIN c.keys
             /\ KeysSeq(c, 0) = [j \in 1..c.len |-> AllSeq(c, 0)[j][1]]
             /\ ValuesSeq(c, 0) = [j \in 1..c.len |-> AllSeq(c, 0)[j][2]]
             /\ c' = c)
       /\ (ret'.path \in {"hit", "update"} =>
             /\ KeysSeq(c', 0) = KeysSeq(c, 0)
             /\ \A j \in 1..c.len :
                   KeysSeq(c, 0)[j] # op'.key => ValuesSeq(c', 0)[j] = ValuesSeq(c, 0)[j])]_vars

\* an All consumed to completion on a cache of two entries, after a call moved the
\* entry of slot 0 to the front of the recency list
C16_Witness ==
    /\ op.name = "All"
    /\ op.stop = 0
    /\ Len(out) = 2
    /\ out[1][1] # out[2][1]
    /\ c.head = 0
    /\ cap = 2

\* the slots reached from head by following next 0, 1, ..., len-1 times
NextChain(cc) ==
    LET w[n \in 0..(cc.len - 1)] == IF n = 0 THEN cc.head ELSE cc.data[w[n - 1]].next
    IN w

\* the slots reached from tail by following last 0, 1, ..., len-1 times
LastChain(cc) ==
    LET w[n \in 0..(cc.len - 1)] == IF n = 0 THEN cc.tail ELSE cc.data[w[n - 1]].last
    IN w

\* C18: in every state reachable by Get, Put and Clear calls in which len > 0, walking
\* next from head exactly len-1 times reaches tail, walking last from tail exactly
\* len-1 times reaches head, and the chain visits every active slot exactly once; in
\* particular when len is 1, head and tail both equal the slot of the single entry.
C18_RecencyList ==
    c.len > 0 =>
       /\ NextChain(c)[c.len - 1] = c.tail
       /\ LastChain(c)[c.len - 1] = c.head
       /\ {NextChain(c)[n] : n \in 0..(c.len - 1)} = 0..(c.len - 1)
       /\ {LastChain(c)[n] : n \in 0..(c.len - 1)} = 0..(c.len - 1)
       /\ (c.len = 1 => c.head = 0 /\ c.tail = 0)

\* the key index has exactly len entries, every key in it maps to a slot in [0, len)
\* that holds that key, no two keys map to the same slot, and every slot in [0, len)
\* is the image of some key
KeyIndexOK(cc) ==
    /\ Cardinality(DOMAIN cc.keys) = cc.len
    /\ \A k \in DOMAIN cc.keys :
          /\ cc.keys[k] \in 0..(cc.len - 1)
          /\ cc.data[cc.keys[k]].key = k
    /\ \A k1, k2 \in DOMAIN cc.keys : cc.keys[k1] = cc.keys[k2] => k1 = k2
    /\ \A i \in 0..(cc.len - 1) : \E k \in DOMAIN cc.keys : cc.keys[k] = i

\* C19: in every state reachable by Get, Put and Clear calls the key index has exactly
\* len entries, maps every key to a slot in [0, len) that holds that key, is injective
\* and covers [0, len); on eviction the new key takes over the victim's slot and no
\* other key's slot changes.
C19_KeyIndex ==
    /\ KeyIndexOK(c)
    /\ [][/\ KeyIndexOK(c')
          /\ (ret'.path = "evict" =>
                /\ Len(victim') = 1
                /\ victim'[1].key \in DOMAIN c.keys
                /\ DOMAIN c'.keys = ((DOMAIN c.keys) \ {victim'[1].key}) \cup {op'.key}
                /\ c'.keys[op'.key] = c.keys[victim'[1].key]
                /\ \A k \in (DOMAIN c.keys) \ {victim'[1].key} : c'.keys[k] = c.keys[k])]_vars

\* an eviction from a cache of two entries that was cleared and filled again
C19_Witness ==
    /\ ret.path = "evict"
    /\ cleared
    /\ c.len = 2
    /\ Len(victim) = 1
    /\ victim[1].key # op.key
    /\ c.keys[op.key] = c.head

\* the indices at which promote(i) indexes c.data: i itself, then head, and in the
\* branch of a node that is neither head nor tail the node's last and next
promoteRefs(cc, i) ==
    IF i \notin DOMAIN cc.data THEN {i}
    ELSE IF i = cc.head THEN {i}
    ELSE IF i = cc.tail THEN {i, cc.head}
    ELSE {i, cc.data[i].last, cc.data[i].next, cc.head}

\* the indices at which Get(key) indexes c.data
GetRefs(cc, key) ==
    IF GetOp(cc, key).ok
    THEN {cc.keys[key]} \cup promoteRefs(cc, cc.keys[key])
    ELSE {}

\* the indices at which Put(key, val) indexes c.data
PutRefs(cc, key, val) ==
    LET path == PutOp(cc, key, val, FALSE).path
    IN CASE path = "zero" -> {}
         [] path = "update" -> {cc.keys[key]} \cup promoteRefs(cc, cc.keys[key])
         [] path = "insert" -> {cc.len, cc.head}
         [] path = "evict" -> {cc.tail} \cup promoteRefs(cc, cc.tail)

\* C20: for every capacity and every sequence of Get, Put and Clear calls, sequences
\* that fill the cache again after Clear included, every index at which promote and
\* Put index the slot array (head, tail, a slot's next and last, the insertion index
\* len) lies in [0, cap): no call fails with an out-of-range access.
C20_IndicesInRange ==
    \A key \in KeySet :
       /\ GetRefs(c, key) \subseteq 0..(cap - 1)
       /\ \A val \in ValSet : PutRefs(c, key, val) \subseteq 0..(cap - 1)

\* a cache cleared and filled again by inserts, whose head and tail are both slot 1:
\* a Get of the key in slot 0 takes the branch of promote that follows last and next
C20_Witness ==
    /\ cleared
    /\ op.name = "Put"
    /\ ret.path = "insert"
    /\ c.len = 2
    /\ c.head = 1
    /\ c.tail = 1
    /\ \E key \in DOMAIN c.keys : promoteRefs(c, c.keys[key]) = {0, c.data[0].last, c.data[0].next, 1}

\* C14: when several threads call Get, Put, Clear and the iterators on one cache, at
\* most one of them is in the locked region at any time, and it holds the mutex; what
\* a call returns, invokes and yields, and the cache it leaves, are those of the same
\* call running alone on the cache as it was when the call took the mutex; the cache
\* a call finds when it takes the mutex has a consistent key index, never a
\* half-updated one.
C14_Serialized ==
    /\ Cardinality({t \in Threads : InLocked(t)}) <= 1
    /\ \A t \in Threads :
          /\ InLocked(t) => mutex = t
          /\ th[t].pc \notin {"idle", "lock"} => KeyIndexOK(th[t].c0)
          /\ th[t].pc = "unlock" =>
                [c |-> c, calls |-> th[t].calls, out |-> th[t].out, ret |-> th[t].ret]
                   = Sequential(th[t])
    /\ mutex = 0 => KeyIndexOK(c)

\* thread 2 is about to return from a Put that evicted an entry and whose callback
\* failed, while thread 1 waits for the mutex
C14_Witness ==
    /\ th[1].pc = "lock"
    /\ th[1].outer = ""
    /\ th[2].pc = "unlock"
    /\ th[2].ret.path = "evict"
    /\ th[2].ret.err # Nil
    /\ mutex = 2

\* C15: the evict callback (in the eviction of Put and in Clear) and the consumer of
\* an iteration run while the thread holds the mutex; once one of them calls a method
\* of the same cache, that thread stays at c.m.Lock() for ever, the mutex is never
\* released, the cache never changes, and no call of any thread completes or enters
\* the locked region.
C15_ReentryDeadlocks ==
    [][\A t \in Threads :
          /\ th[t].pc \in {"evict", "callback", "yield"} => mutex = t
          /\ th[t].outer # "" =>
                /\ th[t].pc = "lock"
                /\ mutex = t
                /\ th'[t] = th[t]
                /\ mutex' = t
                /\ c' = c
                /\ \A u \in Threads :
                      /\ ~(th[u].pc = "unlock" /\ th'[u].pc = "idle")
                      /\ u # t => th[u].pc \in {"idle", "lock"} /\ th'[u].pc \in {"idle", "lock"}]_vars

\* the evict callback of a Put of thread 1 has called into the cache and thread 2,
\* which called afterwards, waits for the mutex
C15_Witness ==
    /\ th[1].outer = "Put"
    /\ th[1].pc = "lock"
    /\ mutex = 1
    /\ th[2].pc = "lock"
    /\ th[2].outer = ""

\* C17: from the first step of consuming All, Keys or Values until the consumption
\* completes or the consumer stops, the iterating thread holds the mutex, the cache
\* is the one it found, no other thread is in or enters the locked region, and the
\* elements yielded so far are the first elements of the storage order of that cache;
\* the return of the iterator unlocks the mutex, and whenever the mutex is unlocked a
\* thread waiting at c.m.Lock() can take it.
C17_IterationHoldsLock ==
    [][\A t \in Threads :
          /\ (th[t].name \in {"All", "Keys", "Values"} /\ th[t].pc \in {"yield", "unlock"} =>
                /\ mutex = t
                /\ c = th[t].c0
                /\ c' = c
                /\ th[t].out = SubSeq(Seq2(th[t].name, th[t].c0, 0), 1, Len(th[t].out))
                /\ \A u \in Threads \ {t} :
                      th[u].pc \in {"idle", "lock"} /\ th'[u].pc \in {"idle", "lock"}
                /\ (th'[t].pc = "idle" => mutex' = 0))
          /\ (mutex = 0 /\ th[t].pc = "lock" => ENABLED Lock(t))]_vars

\* thread 1 has consumed the first of two elements and thread 2 waits for the mutex
C17_Witness ==
    /\ th[1].name = "All"
    /\ th[1].pc = "yield"
    /\ th[1].i = 1
    /\ th[1].n = 2
    /\ Len(th[1].out) = 1
    /\ mutex = 1
    /\ th[2].pc = "lock"
    /\ th[2].outer = ""
====
